---- MODULE Spec2Model ----
(***************************************************************************)
(* Model of weather.py: the NWS fetch helper make_nws_request, the alert   *)
(* formatter format_alert and the two tools get_alerts and get_forecast.   *)
(*                                                                         *)
(* Python strings are TLA+ strings.  A parsed JSON value is a record with  *)
(* a kind k and one payload field: n (number), s (string), a (array: a     *)
(* sequence of values), o (object: a sequence of <<key, value>> pairs in   *)
(* document order, keys unique).  JSON null parses to Python None.         *)
(* The value of an evaluation is [exc, val]: the returned string or the    *)
(* name of the exception raised.                                           *)
(***************************************************************************)
EXTENDS Integers, Sequences, FiniteSets, TLC

VARIABLES inv, log

vars == <<inv, log>>

(* ------------------------------ bounds -------------------------------- *)

\* longest features array drawn for an alerts response
MaxFeatures == 2
\* longest periods array drawn for a forecast response
MaxPeriods == 6
\* number of concurrent invocations in SpecConc
NInv == 3

(* ---------------------------- JSON values ----------------------------- *)

None == [k |-> "null"]
JNum(n) == [k |-> "num", n |-> n]
JStr(s) == [k |-> "str", s |-> s]
JArr(a) == [k |-> "arr", a |-> a]
JObj(o) == [k |-> "obj", o |-> o]

Keys(x) == {x.o[i][1] : i \in DOMAIN x.o}
Get(x, key) == x.o[CHOOSE i \in DOMAIN x.o : x.o[i][1] = key][2]

\* needle in hay, for Python strings
SubStr(needle, hay) ==
    \E i \in 1..(Len(hay) - Len(needle) + 1) :
        SubSeq(hay, i, i + Len(needle) - 1) = needle

\* mutant of Truthy: `is not None` in place of truthiness
Truthy_NotNone(x) == x.k # "null"

\* bool(x)
Truthy(x) ==
    CASE x.k = "null" -> FALSE
      [] x.k = "num" -> x.n # 0
      [] x.k = "str" -> x.s # ""
      [] x.k = "arr" -> x.a # <<>>
      [] x.k = "obj" -> x.o # <<>>

\* whether `key in x` is defined (else TypeError: not iterable)
IsContainer(x) == x.k \in {"str", "arr", "obj"}

\* key in x, for a container x
Contains(key, x) ==
    CASE x.k = "obj" -> key \in Keys(x)
      [] x.k = "arr" -> \E i \in DOMAIN x.a : x.a[i] = JStr(key)
      [] x.k = "str" -> SubStr(key, x.s)

\* what `for e in x` yields, for a container x
Items(x) ==
    CASE x.k = "arr" -> x.a
      [] x.k = "str" -> [i \in 1..Len(x.s) |-> JStr(SubSeq(x.s, i, i))]
      [] x.k = "obj" -> [i \in DOMAIN x.o |-> JStr(x.o[i][1])]

RECURSIVE Join_Trailing(_, _)
\* mutant of Join: the separator after every block
Join_Trailing(sep, blocks) ==
    IF blocks = <<>> THEN ""
    ELSE blocks[1] \o sep \o Join_Trailing(sep, Tail(blocks))

RECURSIVE Join(_, _)
\* sep.join(blocks)
Join(sep, blocks) ==
    IF blocks = <<>> THEN ""
    ELSE IF Len(blocks) = 1 THEN blocks[1]
    ELSE blocks[1] \o sep \o Join(sep, Tail(blocks))

RECURSIVE Repr(_)
\* repr(x) of a parsed JSON value
Repr(x) ==
    CASE x.k = "null" -> "None"
      [] x.k = "num" -> ToString(x.n)
      [] x.k = "str" -> "'" \o x.s \o "'"
      [] x.k = "arr" ->
            "[" \o Join(", ", [i \in DOMAIN x.a |-> Repr(x.a[i])]) \o "]"
      [] x.k = "obj" ->
            "{" \o Join(", ", [i \in DOMAIN x.o |->
                     "'" \o x.o[i][1] \o "': " \o Repr(x.o[i][2])]) \o "}"

\* str(x), what an f-string field renders
Str(x) == IF x.k = "str" THEN x.s ELSE Repr(x)

\* str(f) of a float held in tenths
FloatStr(t) ==
    LET m == IF t < 0 THEN -t ELSE t
    IN (IF t < 0 THEN "-" ELSE "") \o ToString(m \div 10) \o "." \o ToString(m % 10)

Ret(s) == [exc |-> FALSE, val |-> s]
Raise(e) == [exc |-> TRUE, val |-> e]

\* the outcome of evaluating blocks one after the other, then joining them
JoinBlocks(blocks) ==
    IF \E i \in DOMAIN blocks : blocks[i].exc
    THEN blocks[CHOOSE i \in DOMAIN blocks :
                    blocks[i].exc /\ \A j \in 1..(i - 1) : ~blocks[j].exc]
    ELSE Ret(Join("\n---\n", [i \in DOMAIN blocks |-> blocks[i].val]))

(* ----------------------------- constants ------------------------------ *)

NWS_API_BASE == "https://api.weather.gov"
periods_count == 5

UNABLE_ALERTS == "Unable to fetch alerts or no alerts found."
NO_ALERTS == "No active alerts for this state."
UNABLE_POINTS == "Unable to fetch points data for this location."
INVALID_POINTS == "Invalid points data received: missing forecast information."
UNABLE_FORECAST == "Unable to fetch forecast data for this location."
INVALID_FORECAST == "Invalid forecast data received: missing period information."

(* ------------------------- make_nws_request --------------------------- *)

\* What the upstream does with one GET: err names a transport failure
\* ("none": a response arrived with this status; parse_ok says whether its
\* body is JSON, body is the parsed value).
Response(status, parse_ok, body) ==
    [err |-> "none", status |-> status, parse_ok |-> parse_ok, body |-> body]
Transport(err) == [err |-> err, status |-> 0, parse_ok |-> FALSE, body |-> None]

Ok(body) == [exc |-> FALSE, err |-> "", val |-> body]
Exc(e) == [exc |-> TRUE, err |-> e, val |-> None]

\* await client.get(url, ...)
client_get(outcome) == IF outcome.err # "none" THEN Exc(outcome.err) ELSE Ok(None)
\* mutant of raise_for_status: only server errors raise
raise_for_status_ServerOnly(outcome) ==
    IF outcome.status >= 500 THEN Exc("HTTPStatusError") ELSE Ok(None)

\* res.raise_for_status()
raise_for_status(outcome) ==
    IF outcome.status \notin 200..299 THEN Exc("HTTPStatusError") ELSE Ok(None)
\* res.json()
json(outcome) == IF ~outcome.parse_ok THEN Exc("JSONDecodeError") ELSE Ok(outcome.body)

\* the body of the try block
try_body(outcome) ==
    IF client_get(outcome).exc THEN client_get(outcome)
    ELSE IF raise_for_status(outcome).exc THEN raise_for_status(outcome)
    ELSE json(outcome)

\* mutant of Caught: `except httpx.HTTPError`, which a JSON decoding error is not
Caught_TransportOnly(e) == e \in {"ConnectError", "ReadTimeout", "HTTPStatusError"}

\* except Exception: every exception of the try block is caught
Caught(e) == TRUE

\* make_nws_request(url) under this upstream outcome: the value returned,
\* whether an exception left the helper, and the log entries written
make_nws_request(url, outcome) ==
    LET r == try_body(outcome)
    IN IF ~r.exc THEN [raised |-> FALSE, exc |-> "", ret |-> r.val, logs |-> <<>>]
       ELSE IF Caught(r.err)
       THEN [raised |-> FALSE, exc |-> "", ret |-> None,
             logs |-> <<"Error occurred while making NWS request to "
                          \o url \o ": " \o r.err>>]
       ELSE [raised |-> TRUE, exc |-> r.err, ret |-> None, logs |-> <<>>]

(* ---------------------------- format_alert ---------------------------- *)

\* mutant of DictGet: one placeholder for every field
DictGet_Unknown(props, key, default) ==
    IF key \in Keys(props) THEN Get(props, key) ELSE JStr("Unknown")

\* props.get(key, default)
DictGet(props, key, default) ==
    IF key \in Keys(props) THEN Get(props, key) ELSE default

format_alert(feature) ==
    IF feature.k # "obj" THEN Raise("TypeError")
    ELSE IF "properties" \notin Keys(feature) THEN Raise("KeyError")
    ELSE LET props == Get(feature, "properties")
         IN IF props.k # "obj" THEN Raise("AttributeError")
            ELSE Ret("\nEvent: " \o Str(DictGet(props, "event", JStr("Unknown")))
                  \o "\nArea: " \o Str(DictGet(props, "areaDesc", JStr("Unknown")))
                  \o "\nSeverity: " \o Str(DictGet(props, "severity", JStr("Unknown")))
                  \o "\nDescription: "
                  \o Str(DictGet(props, "description", JStr("No description available")))
                  \o "\nInstructions: "
                  \o Str(DictGet(props, "instruction",
                                 JStr("No specific instructions provided")))
                  \o "\n")

(* ----------------------------- get_alerts ----------------------------- *)

alerts_url(state) == NWS_API_BASE \o "/alerts/active/area/" \o state

\* mutant of alerts_after_fetch: without the check for an empty features
alerts_after_fetch_NoEmptyCheck(data) ==
    IF ~Truthy(data) THEN Ret(UNABLE_ALERTS)
    ELSE IF ~IsContainer(data) THEN Raise("TypeError")
    ELSE IF ~Contains("features", data) THEN Ret(UNABLE_ALERTS)
    ELSE IF data.k # "obj" THEN Raise("TypeError")
    ELSE LET features == Get(data, "features")
         IN IF ~IsContainer(features) THEN Raise("TypeError")
            ELSE JoinBlocks([i \in DOMAIN Items(features) |->
                                format_alert(Items(features)[i])])

\* get_alerts from the return of its fetch on
alerts_after_fetch(data) ==
    IF ~Truthy(data) THEN Ret(UNABLE_ALERTS)
    ELSE IF ~IsContainer(data) THEN Raise("TypeError")
    ELSE IF ~Contains("features", data) THEN Ret(UNABLE_ALERTS)
    ELSE IF data.k # "obj" THEN Raise("TypeError")
    ELSE LET features == Get(data, "features")
         IN IF ~Truthy(features) THEN Ret(NO_ALERTS)
            ELSE IF ~IsContainer(features) THEN Raise("TypeError")
            ELSE JoinBlocks([i \in DOMAIN Items(features) |->
                                format_alert(Items(features)[i])])

(* ---------------------------- get_forecast ---------------------------- *)

points_url(latitude, longitude) ==
    NWS_API_BASE \o "/points/" \o FloatStr(latitude) \o "," \o FloatStr(longitude)

\* The check `"properties" not in data or key not in data["properties"]`:
\* "missing", "present", or the exception it raises
nested_key(data, key) ==
    IF ~IsContainer(data) THEN "TypeError"
    ELSE IF ~Contains("properties", data) THEN "missing"
    ELSE IF data.k # "obj" THEN "TypeError"
    ELSE LET props == Get(data, "properties")
         IN IF ~IsContainer(props) THEN "TypeError"
            ELSE IF ~Contains(key, props) THEN "missing"
            ELSE IF props.k # "obj" THEN "TypeError"
            ELSE "present"

PeriodFields ==
    <<"name", "temperature", "temperatureUnit", "windSpeed", "windDirection",
      "detailedForecast">>

\* one iteration of the loop over periods[:periods_count]
format_period(period) ==
    IF period.k # "obj" THEN Raise("TypeError")
    ELSE IF \E i \in DOMAIN PeriodFields : PeriodFields[i] \notin Keys(period)
    THEN Raise("KeyError")
    ELSE Ret("\n" \o Str(Get(period, "name"))
          \o "\nTemperature: " \o Str(Get(period, "temperature"))
          \o "°" \o Str(Get(period, "temperatureUnit"))
          \o "\nWind: " \o Str(Get(period, "windSpeed"))
          \o " " \o Str(Get(period, "windDirection"))
          \o "\nForecast: " \o Str(Get(period, "detailedForecast"))
          \o "\n")

\* mutant of Slice: one entry too many
Slice_OffByOne(s, n) == SubSeq(s, 1, IF Len(s) < n + 1 THEN Len(s) ELSE n + 1)

\* periods[:n] of a sequence
Slice(s, n) == SubSeq(s, 1, IF Len(s) < n THEN Len(s) ELSE n)

\* step 3 of get_forecast
format_periods(periods) ==
    IF periods.k \in {"null", "num", "obj"} THEN Raise("TypeError")
    ELSE LET head == Slice(Items(periods), periods_count)
         IN JoinBlocks([i \in DOMAIN head |-> format_period(head[i])])

\* mutant of forecast_after_points: falls back to the hourly forecast URL
forecast_after_points_Hourly(points_data) ==
    IF ~Truthy(points_data) THEN [next |-> "done", res |-> Ret(UNABLE_POINTS), url |-> ""]
    ELSE LET c == nested_key(points_data, "forecast")
         IN IF c = "missing" /\ nested_key(points_data, "forecastHourly") = "present"
            THEN [next |-> "fetch", res |-> Ret(""),
                  url |-> Get(Get(points_data, "properties"), "forecastHourly").s]
            ELSE IF c = "missing"
            THEN [next |-> "done", res |-> Ret(INVALID_POINTS), url |-> ""]
            ELSE IF c # "present"
            THEN [next |-> "done", res |-> Raise(c), url |-> ""]
            ELSE [next |-> "fetch", res |-> Ret(""),
                  url |-> Get(Get(points_data, "properties"), "forecast").s]

\* get_forecast from the return of its first fetch up to its second fetch:
\* a result, or "fetch" with the URL of the second request
forecast_after_points(points_data) ==
    IF ~Truthy(points_data) THEN [next |-> "done", res |-> Ret(UNABLE_POINTS), url |-> ""]
    ELSE LET c == nested_key(points_data, "forecast")
         IN IF c = "missing"
            THEN [next |-> "done", res |-> Ret(INVALID_POINTS), url |-> ""]
            ELSE IF c # "present"
            THEN [next |-> "done", res |-> Raise(c), url |-> ""]
            ELSE [next |-> "fetch", res |-> Ret(""),
                  url |-> Get(Get(points_data, "properties"), "forecast").s]

\* get_forecast from the return of its second fetch on
forecast_after_fetch(forecast_data) ==
    IF ~Truthy(forecast_data) THEN Ret(UNABLE_FORECAST)
    ELSE LET c == nested_key(forecast_data, "periods")
         IN IF c = "missing" THEN Ret(INVALID_FORECAST)
            ELSE IF c # "present" THEN Raise(c)
            ELSE format_periods(Get(Get(forecast_data, "properties"), "periods"))

(* ------------------------- upstream universes ------------------------- *)

Obj1(key, v) == JObj(<< <<key, v>> >>)
\* the sequences over S of length lo..hi
Seqs(S, lo, hi) == UNION {[1..n -> S] : n \in lo..hi}

AlertPairs ==
    << <<"event", JStr("Flood Warning")>>, <<"areaDesc", JStr("XX County")>>,
       <<"severity", JStr("Severe")>>, <<"description", JStr("Heavy rain")>>,
       <<"instruction", JStr("Move to higher ground")>> >>
AlertFields == {AlertPairs[i][1] : i \in DOMAIN AlertPairs}

\* a feature whose properties carry exactly the fields of S
Feature(S) ==
    Obj1("properties", JObj(SelectSeq(AlertPairs, LAMBDA p : p[1] \in S)))

FieldFeatures == {Feature(S) : S \in SUBSET AlertFields}
OddFeatures ==
    { JObj(<<>>),
      Obj1("properties", None),
      Obj1("properties", JArr(<<>>)),
      JStr("x"),
      None,
      JObj(<< <<"id", JStr("urn:1")>>,
              <<"properties", JObj(<< <<"severity", JNum(3)>>,
                                      <<"instruction", None>>,
                                      <<"event", JStr("Heat Advisory")>> >>)>> >>) }
CoreFeatures ==
    { Feature(AlertFields), Feature({"event", "areaDesc"}), JObj(<<>>) }

AlertBodies ==
    { None, JNum(0), JNum(5), JStr(""), JStr("features"), JStr("my features!"),
      JStr("feature"), JArr(<<>>), JArr(<<JStr("features")>>), JArr(<<JNum(1)>>),
      JObj(<<>>), Obj1("title", JStr("x")),
      Obj1("features", None), Obj1("features", JArr(<<>>)), Obj1("features", JNum(5)),
      Obj1("features", JStr("ab")), Obj1("features", JObj(<<>>)),
      Obj1("features", Obj1("a", JNum(1))),
      JObj(<< <<"type", JStr("FeatureCollection")>>,
              <<"features", JArr(<<Feature(AlertFields \ {"severity"})>>)>>,
              <<"title", JStr("features")>> >>) }
    \cup {Obj1("features", JArr(<<f>>)) : f \in FieldFeatures \cup OddFeatures}
    \cup {Obj1("features", JArr(fs)) : fs \in Seqs(CoreFeatures, 2, MaxFeatures)}

Period(name, temperature) ==
    JObj(<< <<"name", JStr(name)>>, <<"temperature", JNum(temperature)>>,
            <<"temperatureUnit", JStr("F")>>, <<"windSpeed", JStr("5 mph")>>,
            <<"windDirection", JStr("SW")>>,
            <<"detailedForecast", JStr("Clear")>> >>)
\* a period record without its temperature
BadPeriod ==
    JObj(<< <<"name", JStr("Later")>>, <<"temperatureUnit", JStr("F")>>,
            <<"windSpeed", JStr("5 mph")>>, <<"windDirection", JStr("SW")>>,
            <<"detailedForecast", JStr("Clear")>> >>)
CorePeriods == { Period("Tonight", 72), Period("Tuesday", 65), BadPeriod }
OddPeriods ==
    { JObj(<<>>), JStr("Tonight"), None,
      JObj(<< <<"number", JNum(1)>>, <<"name", JStr("")>>, <<"temperature", None>>,
              <<"temperatureUnit", JStr("C")>>, <<"windSpeed", JNum(0)>>,
              <<"windDirection", JStr("N")>>,
              <<"detailedForecast", JStr("Fog")>> >>) }

U1 == "https://api.weather.gov/gridpoints/ILN/84,81/forecast"
U2 == "U"

Props(v) == Obj1("properties", v)

PointBodies ==
    { None, JNum(5), JArr(<<>>), JObj(<<>>), Obj1("title", JStr("x")),
      JArr(<<JStr("properties")>>), JStr("properties"),
      Props(JObj(<<>>)), Props(None), Props(JStr("forecast")),
      Props(JArr(<<JStr("forecast")>>)), Props(Obj1("forecastHourly", JStr(U1))),
      Props(Obj1("forecast", JStr(U1))),
      JObj(<< <<"id", JStr("p")>>,
              <<"properties", JObj(<< <<"cwa", JStr("ILN")>>,
                                      <<"forecast", JStr(U2)>> >>)>> >>) }

ForecastBodies ==
    { None, JNum(0), JObj(<<>>), Obj1("title", JStr("x")), JStr("properties"),
      Props(JObj(<<>>)), Props(None), Props(Obj1("units", JStr("us"))),
      Props(Obj1("periods", None)), Props(Obj1("periods", JNum(5))),
      Props(Obj1("periods", JStr(""))), Props(Obj1("periods", JStr("ab"))) }
    \cup {Props(Obj1("periods", JArr(<<p>>))) : p \in OddPeriods}
    \cup {Props(Obj1("periods", JArr(ps))) : ps \in Seqs(CorePeriods, 0, MaxPeriods)}

\* the ways one GET fails: no connection, timeout, non-2xx status (with a
\* body that would otherwise validate, or none), 2xx with a malformed body
Failures(body) ==
    { Transport("ConnectError"), Transport("ReadTimeout"),
      Response(404, TRUE, body), Response(500, FALSE, None),
      Response(200, FALSE, None) }

AlertOutcomes ==
    Failures(Obj1("features", JArr(<<>>)))
        \cup {Response(200, TRUE, b) : b \in AlertBodies}
PointOutcomes ==
    Failures(Props(Obj1("forecast", JStr(U1))))
        \cup {Response(200, TRUE, b) : b \in PointBodies}
ForecastOutcomes ==
    Failures(Props(Obj1("periods", JArr(<<>>))))
        \cup {Response(200, TRUE, b) : b \in ForecastBodies}

States == {"CA", "XX"}
\* latitudes and longitudes, in tenths of a degree
Latitudes == {399, -5}
Longitudes == {-830, 0}

\* the smaller universes of the concurrent specification
ConcAlertOutcomes ==
    { Transport("ConnectError"),
      Response(200, TRUE, Obj1("features", JArr(<<>>))),
      Response(200, TRUE, Obj1("features", JArr(<<Feature(AlertFields)>>))),
      Response(200, TRUE, Obj1("features", JArr(<<JObj(<<>>)>>))) }
ConcPointOutcomes ==
    { Transport("ReadTimeout"), Response(200, TRUE, Props(JObj(<<>>))),
      Response(200, TRUE, Props(Obj1("forecast", JStr(U1)))) }
ConcForecastOutcomes ==
    { Response(500, FALSE, None), Response(200, TRUE, JObj(<<>>)),
      Response(200, TRUE, Props(Obj1("periods", JArr(<<Period("Tonight", 72)>>)))),
      Response(200, TRUE, Props(Obj1("periods", JArr(<<BadPeriod>>)))) }

(* --------------------------- state machine ---------------------------- *)

\* One invocation of a tool: its arguments, where it is suspended, the GETs
\* it has issued, what the upstream did with each, what make_nws_request
\* returned for each (data; points_data, forecast_data) and its outcome.
Idle ==
    [tool |-> "", state |-> "", latitude |-> 0, longitude |-> 0, pc |-> "idle",
     reqs |-> <<>>, resps |-> <<>>, rets |-> <<>>, result |-> Ret("")]

Init == /\ inv = [i \in {1} |-> Idle]
        /\ log = <<>>

InitConc == /\ inv = [i \in 1..NInv |-> Idle]
            /\ log = <<>>

\* mutant of Through: a failure remembered across invocations (the log is
\* not empty) short-circuits every later one
Through_Breaker(h, r) ==
    IF h.raised THEN Raise(h.exc)
    ELSE IF log # <<>> THEN Ret("Service unavailable.")
    ELSE r

\* the tool outcome when the helper let an exception through
Through(h, r) == IF h.raised THEN Raise(h.exc) ELSE r

\* get_alerts(state) up to its await
CallAlerts(i, state) ==
    /\ inv[i].pc = "idle"
    /\ inv' = [inv EXCEPT ![i] =
                  [@ EXCEPT !.tool = "get_alerts", !.state = state,
                            !.pc = "alerts", !.reqs = <<alerts_url(state)>>]]
    /\ UNCHANGED log

\* get_alerts from the completion of its GET to its return
AlertsResume(i, outcome) ==
    /\ inv[i].pc = "alerts"
    /\ LET h == make_nws_request(inv[i].reqs[1], outcome)
       IN /\ inv' = [inv EXCEPT ![i] =
                        [@ EXCEPT !.pc = "done",
                                  !.resps = Append(@, outcome),
                                  !.rets = IF h.raised THEN @ ELSE Append(@, h.ret),
                                  !.result = Through(h, alerts_after_fetch(h.ret))]]
          /\ log' = log \o h.logs

\* get_forecast(latitude, longitude) up to its first await
CallForecast(i, latitude, longitude) ==
    /\ inv[i].pc = "idle"
    /\ inv' = [inv EXCEPT ![i] =
                  [@ EXCEPT !.tool = "get_forecast", !.latitude = latitude,
                            !.longitude = longitude, !.pc = "points",
                            !.reqs = <<points_url(latitude, longitude)>>]]
    /\ UNCHANGED log

\* get_forecast from the completion of its first GET to its second await,
\* or to its return
PointsResume(i, outcome) ==
    /\ inv[i].pc = "points"
    /\ LET h == make_nws_request(inv[i].reqs[1], outcome)
           step == forecast_after_points(h.ret)
           go == ~h.raised /\ step.next = "fetch"
       IN /\ inv' = [inv EXCEPT ![i] =
                        [@ EXCEPT !.pc = IF go THEN "forecast" ELSE "done",
                                  !.resps = Append(@, outcome),
                                  !.rets = IF h.raised THEN @ ELSE Append(@, h.ret),
                                  !.reqs = IF go THEN Append(@, step.url) ELSE @,
                                  !.result = Through(h, step.res)]]
          /\ log' = log \o h.logs

\* get_forecast from the completion of its second GET to its return
ForecastResume(i, outcome) ==
    /\ inv[i].pc = "forecast"
    /\ LET h == make_nws_request(inv[i].reqs[2], outcome)
       IN /\ inv' = [inv EXCEPT ![i] =
                        [@ EXCEPT !.pc = "done",
                                  !.resps = Append(@, outcome),
                                  !.rets = IF h.raised THEN @ ELSE Append(@, h.ret),
                                  !.result = Through(h, forecast_after_fetch(h.ret))]]
          /\ log' = log \o h.logs

Next ==
    \/ \E i \in DOMAIN inv, state \in States : CallAlerts(i, state)
    \/ \E i \in DOMAIN inv, outcome \in AlertOutcomes : AlertsResume(i, outcome)
    \/ \E i \in DOMAIN inv, latitude \in Latitudes, longitude \in Longitudes :
          CallForecast(i, latitude, longitude)
    \/ \E i \in DOMAIN inv, outcome \in PointOutcomes : PointsResume(i, outcome)
    \/ \E i \in DOMAIN inv, outcome \in ForecastOutcomes : ForecastResume(i, outcome)

NextConc ==
    \/ \E i \in DOMAIN inv, state \in States : CallAlerts(i, state)
    \/ \E i \in DOMAIN inv, outcome \in ConcAlertOutcomes : AlertsResume(i, outcome)
    \/ \E i \in DOMAIN inv, latitude \in Latitudes : CallForecast(i, latitude, 0)
    \/ \E i \in DOMAIN inv, outcome \in ConcPointOutcomes : PointsResume(i, outcome)
    \/ \E i \in DOMAIN inv, outcome \in ConcForecastOutcomes :
          ForecastResume(i, outcome)

\* one invocation at a time, the full upstream universes
Spec == Init /\ [][Next]_vars

\* NInv invocations interleaved at their awaits
SpecConc == InitConc /\ [][NextConc]_vars

(* ------------------------ vocabulary of the claims --------------------- *)

Done(i) == inv[i].pc = "done"
IsAlerts(i) == inv[i].tool = "get_alerts"
IsForecast(i) == inv[i].tool = "get_forecast"

\* a fetch failure: network error or timeout, non-2xx status, malformed body
IsFailure(outcome) ==
    \/ outcome.err # "none"
    \/ outcome.status < 200
    \/ outcome.status > 299
    \/ ~outcome.parse_ok

\* the j-th GET of invocation i was answered with a parsed JSON body
Fetched(i, j) == Len(inv[i].resps) >= j /\ ~IsFailure(inv[i].resps[j])
Body(i, j) == inv[i].resps[j].body
HasKey(x, key) == x.k = "obj" /\ \E n \in DOMAIN x.o : x.o[n][1] = key
Field(x, key) == x.o[CHOOSE n \in DOMAIN x.o : x.o[n][1] = key][2]

\* a JSON object without the key the stage checks: no `properties`, or a
\* `properties` object without `key`
LacksNested(x, key) ==
    /\ x.k = "obj"
    /\ \/ ~HasKey(x, "properties")
       \/ /\ Field(x, "properties").k = "obj"
          /\ ~HasKey(Field(x, "properties"), key)
HasNested(x, key) == HasKey(x, "properties") /\ HasKey(Field(x, "properties"), key)
Nested(x, key) == Field(Field(x, "properties"), key)

Min(a, b) == IF a < b THEN a ELSE b

(* ------------------------------- C1 ----------------------------------- *)

\* a period record among those get_forecast formats lacks an expected field
PeriodLacksField(i) ==
    /\ IsForecast(i)
    /\ Fetched(i, 2)
    /\ HasNested(Body(i, 2), "periods")
    /\ Nested(Body(i, 2), "periods").k = "arr"
    /\ \E n \in 1..Min(5, Len(Nested(Body(i, 2), "periods").a)) :
          LET p == Nested(Body(i, 2), "periods").a[n]
          IN p.k = "obj" /\ \E f \in DOMAIN PeriodFields : ~HasKey(p, PeriodFields[f])

\* C1: every invocation ends by returning a string, whatever the upstream
\* did; the one permitted exception is get_forecast formatting a period
\* record that lacks an expected field.  In particular get_alerts never raises.
C1_AlwaysReturnsString ==
    \A i \in DOMAIN inv :
        Done(i) => (~inv[i].result.exc \/ PeriodLacksField(i))

(* ------------------------------- C2 ----------------------------------- *)

\* the stage at which invocation i returned, and the body fetched there
Stage(i) == Len(inv[i].resps)
UnableMessage(i) ==
    IF IsAlerts(i) THEN UNABLE_ALERTS
    ELSE IF Stage(i) = 1 THEN UNABLE_POINTS ELSE UNABLE_FORECAST
InvalidMessage(i) == IF Stage(i) = 1 THEN INVALID_POINTS ELSE INVALID_FORECAST
StageKey(i) == IF Stage(i) = 1 THEN "forecast" ELSE "periods"

\* the last response of i was fetched and is an object without the checked key
LacksCheckedKey(i) ==
    /\ Done(i)
    /\ Fetched(i, Stage(i))
    /\ IF IsAlerts(i)
       THEN Body(i, 1).k = "obj" /\ ~HasKey(Body(i, 1), "features")
       ELSE LacksNested(Body(i, Stage(i)), StageKey(i))

C3_UnableToFetch ==
    \A i \in DOMAIN inv :
        /\ (Len(inv[i].resps) >= 1 /\ IsFailure(inv[i].resps[1])) =>
              /\ Done(i)
              /\ inv[i].result = Ret(IF IsAlerts(i) THEN UNABLE_ALERTS ELSE UNABLE_POINTS)
        /\ (Len(inv[i].resps) = 2 /\ IsFailure(inv[i].resps[2])) =>
              /\ Done(i)
              /\ IsForecast(i)
              /\ inv[i].result = Ret(UNABLE_FORECAST)

C3_Witness ==
    \E i \in DOMAIN inv :
        /\ Len(inv[i].resps) = 2
        /\ inv[i].resps[2] = Response(404, TRUE, Props(Obj1("periods", JArr(<<>>))))
        /\ inv[i].result = Ret(UNABLE_FORECAST)

(* ------------------------------- C4 ----------------------------------- *)

\* the requests answered so far that failed
FailedRequests ==
    {<<i, j>> \in (DOMAIN inv) \X {1, 2} :
        Len(inv[i].resps) >= j /\ IsFailure(inv[i].resps[j])}

\* C4: make_nws_request never lets an error through: each answered request
\* returned a value to the tool, the parsed JSON when the fetch succeeded and
\* None when it failed; the log holds one entry per failed request, naming
\* its URL, and none for a successful one.
C4_HelperNeverRaises ==
    /\ \A i \in DOMAIN inv :
          /\ Len(inv[i].rets) = Len(inv[i].resps)
          /\ \A j \in DOMAIN inv[i].resps :
                inv[i].rets[j] =
                    IF IsFailure(inv[i].resps[j]) THEN None ELSE Body(i, j)
    /\ Len(log) = Cardinality(FailedRequests)
    /\ \A n \in DOMAIN log :
          \E <<i, j>> \in FailedRequests :
              SubStr("request to " \o inv[i].reqs[j] \o ": ", log[n])

C4_Witness ==
    \E i \in DOMAIN inv :
        /\ Len(inv[i].resps) = 2
        /\ ~IsFailure(inv[i].resps[1])
        /\ inv[i].resps[2] = Response(200, FALSE, None)
        /\ Len(log) = 1

(* ------------------------------- C5 ----------------------------------- *)

\* C5: the GETs of one invocation: get_alerts issues exactly one, to its
\* alerts URL; get_forecast issues one to its points URL and a second one,
\* to exactly U, if and only if the first returned a response holding
\* properties.forecast = U; no request is issued again, so each invocation
\* has at most one answer per request and is done once its last is answered.
C5_RequestSequence ==
    \A i \in DOMAIN inv :
        /\ Len(inv[i].resps) <= Len(inv[i].reqs)
        /\ Done(i) => Len(inv[i].resps) = Len(inv[i].reqs)
        /\ IsAlerts(i) => inv[i].reqs = <<alerts_url(inv[i].state)>>
        /\ IsForecast(i) =>
              /\ Len(inv[i].reqs) \in {1, 2}
              /\ inv[i].reqs[1] = points_url(inv[i].latitude, inv[i].longitude)
              /\ Len(inv[i].reqs) = 2 <=>
                    (Fetched(i, 1) /\ HasNested(Body(i, 1), "forecast"))
              /\ Len(inv[i].reqs) = 2 =>
                    inv[i].reqs[2] = Nested(Body(i, 1), "forecast").s

C5_Witness ==
    \E i \in DOMAIN inv :
        /\ IsForecast(i)
        /\ Done(i)
        /\ Fetched(i, 1)
        /\ HasNested(Body(i, 1), "forecast")
        /\ Nested(Body(i, 1), "forecast") = JStr("U")
        /\ inv[i].reqs = <<points_url(399, -830), "U">>
        /\ IsFailure(inv[i].resps[2])

(* ------------------------------- C6 ----------------------------------- *)

\* the block of one period record that carries all expected fields
PeriodBlock(p) ==
    "\n" \o Str(Field(p, "name")) \o "\nTemperature: " \o Str(Field(p, "temperature"))
      \o "°" \o Str(Field(p, "temperatureUnit")) \o "\nWind: "
      \o Str(Field(p, "windSpeed")) \o " " \o Str(Field(p, "windDirection"))
      \o "\nForecast: " \o Str(Field(p, "detailedForecast")) \o "\n"

RECURSIVE Separated(_, _)
\* blocks[1..n], each but the first preceded by the separator
Separated(blocks, n) ==
    IF n = 0 THEN ""
    ELSE IF n = 1 THEN blocks[1]
    ELSE Separated(blocks, n - 1) \o "\n---\n" \o blocks[n]

CompletePeriod(p) ==
    p.k = "obj" /\ \A f \in DOMAIN PeriodFields : HasKey(p, PeriodFields[f])

\* both fetches succeeded and validated, with a periods sequence
HasPeriods(i) ==
    /\ IsForecast(i)
    /\ Done(i)
    /\ Fetched(i, 2)
    /\ HasNested(Body(i, 2), "periods")
    /\ Nested(Body(i, 2), "periods").k = "arr"
Periods(i) == Nested(Body(i, 2), "periods").a

\* C6: with both fetches validated and n periods, the result is the blocks
\* of the first min(5, n) periods in their order, joined by "\n---\n";
\* periods after the fifth do not matter and fewer than five is no error.
C6_FirstFivePeriods ==
    \A i \in DOMAIN inv :
        (HasPeriods(i) /\ \A n \in 1..Min(5, Len(Periods(i))) :
                              CompletePeriod(Periods(i)[n])) =>
            inv[i].result =
                Ret(Separated([n \in 1..Min(5, Len(Periods(i))) |->
                                  PeriodBlock(Periods(i)[n])],
                              Min(5, Len(Periods(i)))))

\* six periods, the sixth without its temperature, and five blocks returned
C6_Witness ==
    \E i \in DOMAIN inv :
        /\ HasPeriods(i)
        /\ Len(Periods(i)) = 6
        /\ Periods(i)[6] = BadPeriod
        /\ Periods(i)[1] = Period("Tuesday", 65)
        /\ Periods(i)[2] = Period("Tonight", 72)
        /\ \A n \in 1..5 : CompletePeriod(Periods(i)[n])
        /\ ~inv[i].result.exc
        /\ SubStr("\nTuesday\nTemperature: 65°F\nWind: 5 mph SW\nForecast: Clear\n\n---\n\nTonight\n",
                  inv[i].result.val)

\* fewer than five periods are all used
C6_WitnessShort ==
    \E i \in DOMAIN inv :
        /\ HasPeriods(i)
        /\ Periods(i) = <<Period("Tonight", 72), Period("Tuesday", 65)>>
        /\ ~inv[i].result.exc

(* ------------------------------- C7 ----------------------------------- *)

\* a feature record as the data model has it: an object with a properties object
WellFormedFeature(f) ==
    HasKey(f, "properties") /\ Field(f, "properties").k = "obj"

\* the alerts fetch succeeded with a non-empty features sequence
HasFeatures(i) ==
    /\ IsAlerts(i)
    /\ Done(i)
    /\ Fetched(i, 1)
    /\ HasKey(Body(i, 1), "features")
    /\ Field(Body(i, 1), "features").k = "arr"
    /\ Field(Body(i, 1), "features").a # <<>>
Features(i) == Field(Body(i, 1), "features").a

\* C7: with features [f1, ..., fn], n >= 1, get_alerts returns
\* format_alert(f1) + "\n---\n" + ... + "\n---\n" + format_alert(fn).
C7_AlertsJoined ==
    \A i \in DOMAIN inv :
        (HasFeatures(i) /\ \A n \in DOMAIN Features(i) :
                               WellFormedFeature(Features(i)[n])) =>
            inv[i].result =
                Ret(Separated([n \in DOMAIN Features(i) |->
                                  format_alert(Features(i)[n]).val],
                              Len(Features(i))))

C7_Witness ==
    \E i \in DOMAIN inv :
        /\ HasFeatures(i)
        /\ Features(i) = <<Feature({"event", "areaDesc"}), Feature(AlertFields)>>
        /\ inv[i].result =
              Ret(format_alert(Feature({"event", "areaDesc"})).val \o "\n---\n"
                    \o format_alert(Feature(AlertFields)).val)

(* ------------------------------- C8 ----------------------------------- *)

\* C8: an empty features sequence is "No active alerts for this state.";
\* an absent result or one without the features key is "Unable to fetch
\* alerts or no alerts found."; the two messages differ.
C8_EmptyFeaturesDistinct ==
    /\ NO_ALERTS # UNABLE_ALERTS
    /\ \A i \in DOMAIN inv :
          (IsAlerts(i) /\ Done(i)) =>
              /\ (Fetched(i, 1) /\ HasKey(Body(i, 1), "features")
                    /\ Field(Body(i, 1), "features") = JArr(<<>>)) =>
                    inv[i].result = Ret(NO_ALERTS)
              /\ (\/ IsFailure(inv[i].resps[1])
                  \/ Body(i, 1) = None
                  \/ Body(i, 1).k = "obj" /\ ~HasKey(Body(i, 1), "features")) =>
                    inv[i].result = Ret(UNABLE_ALERTS)

C8_Witness ==
    \E i \in DOMAIN inv :
        /\ IsAlerts(i)
        /\ Done(i)
        /\ Fetched(i, 1)
        /\ Body(i, 1) = Obj1("features", JArr(<<>>))
        /\ inv[i].result.val = "No active alerts for this state."

(* ------------------------------- C9 ----------------------------------- *)

\* one labelled line of the block: the field as it is, or its placeholder
Line(props, label, key, placeholder) ==
    label \o (IF HasKey(props, key) THEN Str(Field(props, key)) ELSE placeholder) \o "\n"

\* C9: for a feature record (an object with a properties object)
\* format_alert returns the five labelled lines, a field that is absent
\* rendered by its placeholder and a field that is present rendered as it is.
C9_FormatAlertPlaceholders ==
    \A i \in DOMAIN inv :
        (HasFeatures(i) /\ Len(Features(i)) = 1 /\ WellFormedFeature(Features(i)[1])) =>
            LET props == Field(Features(i)[1], "properties")
            IN inv[i].result =
                  Ret("\n" \o Line(props, "Event: ", "event", "Unknown")
                        \o Line(props, "Area: ", "areaDesc", "Unknown")
                        \o Line(props, "Severity: ", "severity", "Unknown")
                        \o Line(props, "Description: ", "description",
                                "No description available")
                        \o Line(props, "Instructions: ", "instruction",
                                "No specific instructions provided"))

\* a feature that omits severity alone
C9_Witness ==
    \E i \in DOMAIN inv :
        /\ HasFeatures(i)
        /\ Features(i) = <<Feature(AlertFields \ {"severity"})>>
        /\ inv[i].result =
              Ret("\nEvent: Flood Warning\nArea: XX County\nSeverity: Unknown\n"
                    \o "Description: Heavy rain\nInstructions: Move to higher ground\n")

(* ------------------------------- C10 ---------------------------------- *)

\* C10: invocations are independent: two finished invocations of the same
\* tool with the same arguments whose requests got the same upstream
\* responses returned the same outcome, whatever ran before or between.
C10_Independent ==
    \A i, j \in DOMAIN inv :
        (/\ Done(i) /\ Done(j)
         /\ inv[i].tool = inv[j].tool
         /\ inv[i].state = inv[j].state
         /\ inv[i].latitude = inv[j].latitude
         /\ inv[i].longitude = inv[j].longitude
         /\ inv[i].resps = inv[j].resps) =>
            inv[i].result = inv[j].result

\* two equal invocations finished after a third one's fetch had failed
C10_Witness ==
    \E i, j, m \in DOMAIN inv :
        /\ i # j
        /\ Done(i) /\ Done(j) /\ Done(m)
        /\ IsForecast(i) /\ IsForecast(j)
        /\ inv[i].latitude = inv[j].latitude
        /\ inv[i].resps = inv[j].resps
        /\ Len(inv[i].resps) = 2
        /\ ~inv[i].result.exc
        /\ inv[i].result = inv[j].result
        /\ IsFailure(inv[m].resps[1])
        /\ log # <<>>

====
